---- MODULE Spec2Model ----
(***************************************************************************)
(* Model of eslint-plugin-imsort: the specifier classifier, the group      *)
(* key, the identifier and statement comparators, the statement generator  *)
(* and the sort-imports rule (collect, evaluate, report, fix).             *)
(*                                                                         *)
(* Strings are sequences of one-character strings, so that prefix tests,   *)
(* regular expressions, splitting and collation are computed, not assumed. *)
(***************************************************************************)
EXTENDS Integers, Sequences, FiniteSets, TLC

\* ------------------------------------------------------------------------
\* Bounds
\* ------------------------------------------------------------------------
MaxSrcLen == 3
MaxImports == 2
MaxPasses == 3

\* ------------------------------------------------------------------------
\* Characters
\* ------------------------------------------------------------------------
LowerLetters ==
  <<"a","b","c","d","e","f","g","h","i","j","k","l","m",
    "n","o","p","q","r","s","t","u","v","w","x","y","z">>

UpperLetters ==
  <<"A","B","C","D","E","F","G","H","I","J","K","L","M",
    "N","O","P","Q","R","S","T","U","V","W","X","Y","Z">>

DigitChars == <<"0","1","2","3","4","5","6","7","8","9">>

Range(f) == {f[i] : i \in DOMAIN f}

IsLowerChar(c) == c \in Range(LowerLetters)
IsUpperChar(c) == c \in Range(UpperLetters)
IsLetter(c) == IsLowerChar(c) \/ IsUpperChar(c)
IsDigit(c) == c \in Range(DigitChars)

IndexIn(f, c) == CHOOSE i \in DOMAIN f : f[i] = c

\* 1..26 for a letter of either case
LetterIndex(c) ==
  IF IsLowerChar(c) THEN IndexIn(LowerLetters, c) ELSE IndexIn(UpperLetters, c)

DigitValue(c) == IndexIn(DigitChars, c) - 1

\* The letter a with an acute accent in both cases (U+00E1 and U+00C1), one
\* character each, written by name
AcuteLowerA == "a-acute"
AcuteUpperA == "A-acute"

IsAccented(c) == c \in {AcuteLowerA, AcuteUpperA}

\* The letter a character is a variant of
BaseLetter(c) ==
  IF c = AcuteLowerA THEN "a" ELSE IF c = AcuteUpperA THEN "A" ELSE c

\* String.prototype.toLowerCase / toUpperCase on one character
CharToLower(c) ==
  IF IsUpperChar(c) THEN LowerLetters[LetterIndex(c)]
  ELSE IF c = AcuteUpperA THEN AcuteLowerA ELSE c
CharToUpper(c) ==
  IF IsLowerChar(c) THEN UpperLetters[LetterIndex(c)]
  ELSE IF c = AcuteLowerA THEN AcuteUpperA ELSE c

ToLowerCase(s) == [i \in DOMAIN s |-> CharToLower(s[i])]

\* [a-zA-Z0-9_-]
IsAliasChar(c) == IsLetter(c) \/ IsDigit(c) \/ c = "_" \/ c = "-"

StartsWith(s, p) == Len(s) >= Len(p) /\ SubSeq(s, 1, Len(p)) = p

\* String.prototype.indexOf for one character, 0-based, -1 when absent
IndexOfChar(s, c) ==
  IF \E i \in DOMAIN s : s[i] = c
    THEN (CHOOSE i \in DOMAIN s : s[i] = c /\ \A j \in 1..(i - 1) : s[j] # c) - 1
    ELSE -1

CountChar(s, c) == Cardinality({i \in DOMAIN s : s[i] = c})

\* ------------------------------------------------------------------------
\* Specifier classifier
\* ------------------------------------------------------------------------
RUNTIME_NAMESPACES ==
  { <<"n","o","d","e">>, <<"b","u","n">>, <<"d","e","n","o">>,
    <<"c","l","o","u","d","f","l","a","r","e">>,
    <<"w","o","r","k","e","r","d">>, <<"w","r","a","n","g","l","e","r">> }

REGISTRY_NAMESPACES ==
  { <<"n","p","m">>, <<"j","s","r">>, <<"e","s","m">>,
    <<"u","n","p","k","g">>, <<"c","d","n">> }

\* A plausible slip: the pattern without its leading letter,
\* /^[a-zA-Z0-9_-]+$/
IsNamespaceName_anyFirst(s) ==
  /\ Len(s) >= 1
  /\ \A i \in 1..Len(s) : IsAliasChar(s[i])

\* /^[a-zA-Z][a-zA-Z0-9_-]*$/
IsNamespaceName(s) ==
  /\ Len(s) >= 1
  /\ IsLetter(s[1])
  /\ \A i \in 2..Len(s) : IsAliasChar(s[i])

\* Length of the longest prefix of s, starting at position from, made of
\* alias characters.
AliasRunEnd(s, from) ==
  CHOOSE k \in (from - 1)..Len(s) :
    /\ \A i \in from..k : IsAliasChar(s[i])
    /\ (k = Len(s) \/ ~IsAliasChar(s[k + 1]))

\* /^\$([a-zA-Z0-9_-]*)\//
DollarMatches(s) ==
  /\ Len(s) >= 2
  /\ s[1] = "$"
  /\ AliasRunEnd(s, 2) < Len(s)
  /\ s[AliasRunEnd(s, 2) + 1] = "/"

DollarAlias(s) == SubSeq(s, 1, AliasRunEnd(s, 2))

\* /^~(?!\/)[a-zA-Z0-9_-]+\//
TildeNameMatches(s) ==
  /\ Len(s) >= 3
  /\ s[1] = "~"
  /\ AliasRunEnd(s, 2) >= 2
  /\ AliasRunEnd(s, 2) < Len(s)
  /\ s[AliasRunEnd(s, 2) + 1] = "/"

\* A plausible slip: every specifier that starts with "@" taken as the alias
IsAtAlias_anyAt(source) == StartsWith(source, <<"@">>)

\* source.startsWith('@/')
IsAtAlias(source) == StartsWith(source, <<"@", "/">>)

\* Number of leading "../" repetitions: the match of /^(\.\.\/)+/
RECURSIVE ParentSegments(_)
ParentSegments(s) ==
  IF StartsWith(s, <<".", ".", "/">>)
    THEN 1 + ParentSegments(SubSeq(s, 4, Len(s)))
    ELSE 0

Max(a, b) == IF a >= b THEN a ELSE b

\* One record shape for every kind; the fields a kind does not carry keep
\* their neutral value.
Classification(kind) ==
  [kind |-> kind, namespace |-> <<>>, alias |-> <<>>, isRoot |-> FALSE,
   depth |-> 0, isBareSlash |-> FALSE, isScoped |-> FALSE]

classifyImportGroup(source) ==
  LET colonIndex == IndexOfChar(source, ":")
      beforeColon == SubSeq(source, 1, colonIndex)
      namespace == ToLowerCase(beforeColon)
  IN
  IF colonIndex > 0 /\ namespace \in RUNTIME_NAMESPACES
    THEN [Classification("runtime-namespaced") EXCEPT !.namespace = namespace]
  ELSE IF colonIndex > 0 /\ namespace \in REGISTRY_NAMESPACES
    THEN [Classification("registry-namespaced") EXCEPT !.namespace = namespace]
  ELSE IF colonIndex > 0 /\ IsNamespaceName(beforeColon)
    THEN [Classification("generic-namespaced") EXCEPT !.namespace = namespace]
  ELSE IF DollarMatches(source)
    THEN [Classification("dollar-aliased") EXCEPT !.alias = DollarAlias(source)]
  ELSE IF IsAtAlias(source)
    THEN Classification("at-aliased")
  ELSE IF StartsWith(source, <<"~", "/">>)
    THEN [Classification("tilde-aliased") EXCEPT !.isRoot = TRUE]
  ELSE IF TildeNameMatches(source)
    THEN [Classification("tilde-aliased") EXCEPT !.isRoot = FALSE]
  ELSE IF ParentSegments(source) >= 1
    THEN [Classification("parent-relative") EXCEPT
            !.depth = ParentSegments(source)]
  ELSE IF source = <<".", ".">>
    THEN [Classification("parent-relative") EXCEPT !.depth = 1]
  ELSE IF StartsWith(source, <<".", "/">>)
    THEN [Classification("current-directory") EXCEPT
            !.isBareSlash = (source = <<".", "/">>),
            !.depth = Max(0, (CountChar(source, "/") + 1) - 2)]
  ELSE [Classification("bare-import") EXCEPT
            !.isScoped = StartsWith(source, <<"@">>)]

\* ------------------------------------------------------------------------
\* Group key
\* ------------------------------------------------------------------------
\* A plausible slip: the depth added for parent paths as for descendants
ParentKey_shallowFirst(classification) == 40 + classification.depth

\* case 'parent-relative': deeper parent paths come first
ParentKey(classification) == 60 - classification.depth

\* A plausible slip: the offset of the current-directory keys left out
CurrentKey_noOffset(classification) ==
  IF classification.isBareSlash THEN 6 ELSE classification.depth

\* case 'current-directory': bare './' = 6, './file' = 60, deeper = 60 + depth
CurrentKey(classification) ==
  IF classification.isBareSlash THEN 6 ELSE 60 + classification.depth

\* A plausible slip: the non-root tilde alias put with the root aliases
getGroupKey_tildeWithAt(classification) ==
  CASE classification.kind = "runtime-namespaced" -> 0
    [] classification.kind = "registry-namespaced" -> 1
    [] classification.kind = "generic-namespaced" -> 2
    [] classification.kind = "bare-import" -> 3
    [] classification.kind = "dollar-aliased" -> 5
    [] classification.kind = "tilde-aliased" ->
         IF classification.isRoot THEN 4 ELSE 5
    [] classification.kind = "at-aliased" -> 4
    [] classification.kind = "parent-relative" -> ParentKey(classification)
    [] classification.kind = "current-directory" -> CurrentKey(classification)

getGroupKey(classification) ==
  CASE classification.kind = "runtime-namespaced" -> 0
    [] classification.kind = "registry-namespaced" -> 1
    [] classification.kind = "generic-namespaced" -> 2
    [] classification.kind = "bare-import" -> 3
    [] classification.kind = "dollar-aliased" -> 4
    [] classification.kind = "tilde-aliased" ->
         IF classification.isRoot THEN 5 ELSE 4
    [] classification.kind = "at-aliased" -> 5
    [] classification.kind = "parent-relative" -> ParentKey(classification)
    [] classification.kind = "current-directory" -> CurrentKey(classification)

\* ------------------------------------------------------------------------
\* utils/compare.ts: compareImportGroups
\* ------------------------------------------------------------------------
GROUP_ORDER ==
  <<"runtime-namespaced", "registry-namespaced", "generic-namespaced",
    "bare-import", "dollar-aliased", "tilde-aliased", "at-aliased",
    "parent-relative", "current-directory">>

\* GROUP_ORDER.indexOf(kind)
GroupOrderIndex(kind) ==
  IF kind \in Range(GROUP_ORDER) THEN IndexIn(GROUP_ORDER, kind) - 1 ELSE -1

compareImportGroups(a, b) ==
  LET aIndex == GroupOrderIndex(a.kind)
      bIndex == GroupOrderIndex(b.kind)
  IN IF aIndex # bIndex THEN aIndex - bIndex
     ELSE CASE a.kind = "parent-relative" -> b.depth - a.depth
            [] a.kind = "current-directory" -> a.depth - b.depth
            [] OTHER -> 0

\* utils/get-import-group-priority.ts of the current revision: the group key
\* of the classification of the source (its tests fix the values).
getImportGroupPriority(source) == getGroupKey(classifyImportGroup(source))

\* ------------------------------------------------------------------------
\* String.prototype.localeCompare(other, undefined, {numeric: true,
\* sensitivity}) for the characters used here (root collation).
\* Primary order: punctuation and symbols, then numbers by value, then letters
\* without regard to case.  A string that is a proper prefix sorts first.
\* sensitivity "base" stops at the primary level; "case" and "variant" then
\* order the first case difference lowercase first.
\* ------------------------------------------------------------------------
PunctuationOrder == <<" ", "_", "-", ":", ".", "@", "/", "~", "$">>

NumberBase == 100
LetterBase == 1000000

RECURSIVE DigitRunLen(_)
DigitRunLen(s) ==
  IF s # <<>> /\ IsDigit(s[1]) THEN 1 + DigitRunLen(Tail(s)) ELSE 0

RECURSIVE NumberValue(_)
NumberValue(s) ==
  IF s = <<>> THEN 0
  ELSE 10 * NumberValue(SubSeq(s, 1, Len(s) - 1)) + DigitValue(s[Len(s)])

\* A plausible slip: the option numeric left out, the digits of a run taken
\* one by one
DigitRunKey_firstDigit(s) == NumberBase + DigitValue(s[1])

\* numeric: true - the digit run at the head of s weighs as its value
DigitRunKey(s) == NumberBase + NumberValue(SubSeq(s, 1, DigitRunLen(s)))

\* The primary collation weights of a string, a digit run being one element.
RECURSIVE PrimaryKeys(_)
PrimaryKeys(s) ==
  IF s = <<>> THEN <<>>
  ELSE IF IsDigit(s[1])
    THEN <<DigitRunKey(s)>>
           \o PrimaryKeys(SubSeq(s, DigitRunLen(s) + 1, Len(s)))
  ELSE IF IsLetter(BaseLetter(s[1]))
    THEN <<LetterBase + LetterIndex(BaseLetter(s[1]))>> \o PrimaryKeys(Tail(s))
  ELSE <<IndexIn(PunctuationOrder, s[1])>> \o PrimaryKeys(Tail(s))

RECURSIVE CompareKeys(_, _)
CompareKeys(k1, k2) ==
  IF k1 = <<>> /\ k2 = <<>> THEN 0
  ELSE IF k1 = <<>> THEN -1
  ELSE IF k2 = <<>> THEN 1
  ELSE IF k1[1] < k2[1] THEN -1
  ELSE IF k1[1] > k2[1] THEN 1
  ELSE CompareKeys(Tail(k1), Tail(k2))

\* Secondary level of two primary-equal strings of the same length: at the
\* first place where one has an accent and the other none, the one without
\* comes first.
CompareAccents(a, b) ==
  LET differ == {i \in DOMAIN a : IsAccented(a[i]) # IsAccented(b[i])}
  IN IF Len(a) # Len(b) \/ differ = {} THEN 0
     ELSE IF IsAccented(a[CHOOSE i \in differ : \A j \in differ : i <= j])
       THEN 1 ELSE -1

\* Case level of two primary-equal strings of the same length: at the first
\* place where the case differs, lowercase comes first.
CompareCase(a, b) ==
  LET differ == {i \in DOMAIN a :
                   IsLowerChar(BaseLetter(a[i])) # IsLowerChar(BaseLetter(b[i]))}
  IN IF Len(a) # Len(b) \/ differ = {} THEN 0
     ELSE IF IsLowerChar(BaseLetter(a[CHOOSE i \in differ : \A j \in differ : i <= j]))
       THEN -1 ELSE 1

\* sensitivity 'base' compares the letters alone, 'case' the letters and then
\* the case, 'variant' the letters, then the accents, then the case
compareStrings(a, b, mode) ==
  LET primary == CompareKeys(PrimaryKeys(a), PrimaryKeys(b))
  IN IF primary # 0 \/ mode = "base" THEN primary
     ELSE IF mode = "variant" /\ CompareAccents(a, b) # 0
       THEN CompareAccents(a, b)
     ELSE CompareCase(a, b)

\* Compare identifiers with case-insensitive, numeric-aware comparison
compareIdentifiers(a, b) == compareStrings(a, b, "base")

\* Compare source paths with case-sensitive, numeric-aware comparison
compareSources(a, b) == compareStrings(a, b, "variant")

\* ------------------------------------------------------------------------
\* Import records.  An absent local alias is the empty string.
\* ------------------------------------------------------------------------
NoLocal == <<>>

ImportIdentifier(imported, local, isTypeOnly) ==
  [imported |-> imported, local |-> local, isTypeOnly |-> isTypeOnly]

ImportedNames(identifiers) ==
  [i \in DOMAIN identifiers |-> identifiers[i].imported]

\* ------------------------------------------------------------------------
\* utils/sort.ts: the identifier sorter
\* ------------------------------------------------------------------------
\* A plausible slip: the two results of the case rule exchanged
UppercaseFirst_lowercaseFirst(a, b) ==
  IF a = <<>> \/ b = <<>> THEN 0
  ELSE LET aFirst == a[1]
           bFirst == b[1]
           aIsUpper == aFirst = CharToUpper(aFirst) /\ aFirst # CharToLower(aFirst)
           bIsUpper == bFirst = CharToUpper(bFirst) /\ bFirst # CharToLower(bFirst)
       IN IF CharToLower(aFirst) = CharToLower(bFirst) /\ aFirst # bFirst
            THEN IF aIsUpper /\ ~bIsUpper THEN 1
                 ELSE IF ~aIsUpper /\ bIsUpper THEN -1
                 ELSE 0
            ELSE 0

\* The rule for two names whose first characters are the same letter in
\* different case; 0 when the rule does not apply.
UppercaseFirst(a, b) ==
  IF a = <<>> \/ b = <<>> THEN 0
  ELSE LET aFirst == a[1]
           bFirst == b[1]
           aIsUpper == aFirst = CharToUpper(aFirst) /\ aFirst # CharToLower(aFirst)
           bIsUpper == bFirst = CharToUpper(bFirst) /\ bFirst # CharToLower(bFirst)
       IN IF CharToLower(aFirst) = CharToLower(bFirst) /\ aFirst # bFirst
            THEN IF aIsUpper /\ ~bIsUpper THEN -1
                 ELSE IF ~aIsUpper /\ bIsUpper THEN 1
                 ELSE 0
            ELSE 0

\* The comparator sortIdentifiers of utils/sort.ts passes to Array.sort
compareForSort(a, b) ==
  IF UppercaseFirst(a.imported, b.imported) # 0
    THEN UppercaseFirst(a.imported, b.imported)
    ELSE compareStrings(a.imported, b.imported, "case")

\* utils/generate-import-statement.ts: the comparator the generator passes to
\* Array.sort
sortIdentifiers_generate(a, b) ==
  IF UppercaseFirst(a.imported, b.imported) # 0
    THEN UppercaseFirst(a.imported, b.imported)
    ELSE compareStrings(a.imported, b.imported, "variant")

\* ------------------------------------------------------------------------
\* utils/sort-imports-in-group.ts
\* ------------------------------------------------------------------------
\* A plausible slip: default imports ranked before namespace imports
TYPE_ORDER_defaultFirst(type) ==
  CASE type = "side-effect" -> 0
    [] type = "namespace" -> 2
    [] type = "default" -> 1
    [] type = "named" -> 3
    [] OTHER -> 999

TYPE_ORDER(type) ==
  CASE type = "side-effect" -> 0
    [] type = "namespace" -> 1
    [] type = "default" -> 2
    [] type = "named" -> 3
    [] OTHER -> 999

TypeSpace == <<"t", "y", "p", "e", " ">>

stripTypePrefix(id) ==
  IF StartsWith(id, TypeSpace) THEN SubSeq(id, 6, Len(id)) ELSE id

FirstIdOrSource(a) ==
  IF a.identifiers # <<>> THEN a.identifiers[1].imported ELSE a.source

\* A plausible slip: the first identifiers compared the way the bindings of
\* one statement are (uppercase first, then case-sensitive)
compareImports_sorterComparator(a, b) ==
  LET typeDiff == TYPE_ORDER(a.type) - TYPE_ORDER(b.type)
      aFirst == stripTypePrefix(FirstIdOrSource(a))
      bFirst == stripTypePrefix(FirstIdOrSource(b))
      identifierComparison ==
        IF UppercaseFirst(aFirst, bFirst) # 0 THEN UppercaseFirst(aFirst, bFirst)
        ELSE compareStrings(aFirst, bFirst, "case")
  IN IF typeDiff # 0 THEN typeDiff
     ELSE IF identifierComparison # 0 THEN identifierComparison
     ELSE compareSources(a.source, b.source)

\* The comparator of sortImportsInGroup
compareImports(a, b) ==
  LET typeDiff == TYPE_ORDER(a.type) - TYPE_ORDER(b.type)
      identifierComparison ==
        compareIdentifiers(stripTypePrefix(FirstIdOrSource(a)),
                           stripTypePrefix(FirstIdOrSource(b)))
  IN IF typeDiff # 0 THEN typeDiff
     ELSE IF identifierComparison # 0 THEN identifierComparison
     ELSE compareSources(a.source, b.source)

\* ------------------------------------------------------------------------
\* Array.prototype.sort(comparator): a stable sort.  Each element is inserted
\* behind the last element that is not greater than it.
\* ------------------------------------------------------------------------
ComparatorOfSort == "utils/sort.ts"
ComparatorOfGenerate == "utils/generate-import-statement.ts"
ComparatorOfGroup == "utils/sort-imports-in-group.ts"

CompareBy(comparator, a, b) ==
  CASE comparator = ComparatorOfSort -> compareForSort(a, b)
    [] comparator = ComparatorOfGenerate -> sortIdentifiers_generate(a, b)
    [] comparator = ComparatorOfGroup -> compareImports(a, b)

InsertSorted(sorted, x, comparator) ==
  LET notGreater == {i \in DOMAIN sorted : CompareBy(comparator, sorted[i], x) <= 0}
      k == IF notGreater = {} THEN 0
           ELSE CHOOSE i \in notGreater : \A j \in notGreater : j <= i
  IN SubSeq(sorted, 1, k) \o <<x>> \o SubSeq(sorted, k + 1, Len(sorted))

StableSort(seq, comparator) ==
  LET sortedPrefix[n \in 0..Len(seq)] ==
        IF n = 0 THEN <<>>
        ELSE InsertSorted(sortedPrefix[n - 1], seq[n], comparator)
  IN sortedPrefix[Len(seq)]

sortIdentifiers(identifiers) == StableSort(identifiers, ComparatorOfSort)

\* A plausible slip: a check of its own, each name before its successor
areIdentifiersSortedArray_pairwise(identifiers) ==
  \A i \in 1..(Len(identifiers) - 1) :
    compareForSort(identifiers[i], identifiers[i + 1]) < 0

\* areIdentifiersSorted of utils/sort.ts
areIdentifiersSortedArray(identifiers) ==
  IF Len(identifiers) <= 1 THEN TRUE
  ELSE ImportedNames(identifiers) = ImportedNames(sortIdentifiers(identifiers))

sortImportsInGroup(imports) == StableSort(imports, ComparatorOfGroup)

\* ------------------------------------------------------------------------
\* Statement text.  The text of one import statement is its sequence of
\* tokens; white space inside a statement is the canonical one (a blank
\* between tokens, none before "," and ";").
\* ------------------------------------------------------------------------
Kw(k) == [k |-> k, v |-> <<>>]
Ident(name) == [k |-> "ident", v |-> name]
StringLiteral(quote, value) == [k |-> quote, v |-> value]

SingleQuote == "'"
DoubleQuote == "\""

TypeName == <<"t", "y", "p", "e">>
TokType == Ident(TypeName)

IsStringToken(tok) == tok.k \in {SingleQuote, DoubleQuote}

\* Index of the first token of kind k, 0 when there is none
FirstToken(toks, k) ==
  IF \E i \in DOMAIN toks : toks[i].k = k
    THEN CHOOSE i \in DOMAIN toks :
           toks[i].k = k /\ \A j \in 1..(i - 1) : toks[j].k # k
    ELSE 0

\* The tokens between the first "{" and the first "}", split at ","; an
\* empty piece (trailing comma, empty braces) is dropped.
RECURSIVE SplitAtCommas(_)
SplitAtCommas(toks) ==
  IF toks = <<>> THEN <<>>
  ELSE LET c == FirstToken(toks, ",")
           head == IF c = 0 THEN toks ELSE SubSeq(toks, 1, c - 1)
           rest == IF c = 0 THEN <<>> ELSE SubSeq(toks, c + 1, Len(toks))
       IN (IF head = <<>> THEN <<>> ELSE <<head>>) \o SplitAtCommas(rest)

BraceContent(toks) ==
  LET lb == FirstToken(toks, "{")
      rb == FirstToken(toks, "}")
  IN IF lb = 0 \/ rb = 0 \/ rb < lb THEN <<>> ELSE SubSeq(toks, lb + 1, rb - 1)

\* ------------------------------------------------------------------------
\* utils/detect-formatting-preferences.ts
\* ------------------------------------------------------------------------
\* /from\s*'[^']*'/ or /import\s*'[^']*'/ with the given quote character
QuotedAfter(toks, k, quote) ==
  \E i \in 1..(Len(toks) - 1) : toks[i].k = k /\ toks[i + 1].k = quote

\* A plausible slip: the quote style detected once, from the first statement
\* of the source text
detectFormattingPreferences_global(sourceText, importText) ==
  LET single == QuotedAfter(sourceText[1].toks, "from", SingleQuote)
                  \/ QuotedAfter(sourceText[1].toks, "import", SingleQuote)
      double == QuotedAfter(sourceText[1].toks, "from", DoubleQuote)
                  \/ QuotedAfter(sourceText[1].toks, "import", DoubleQuote)
  IN IF single /\ ~double THEN [useSingleQuotes |-> TRUE]
     ELSE IF double /\ ~single THEN [useSingleQuotes |-> FALSE]
     ELSE [useSingleQuotes |-> TRUE]

detectFormattingPreferences(sourceText, importText) ==
  LET single == QuotedAfter(importText, "from", SingleQuote)
                  \/ QuotedAfter(importText, "import", SingleQuote)
      double == QuotedAfter(importText, "from", DoubleQuote)
                  \/ QuotedAfter(importText, "import", DoubleQuote)
  IN IF single /\ ~double THEN [useSingleQuotes |-> TRUE]
     ELSE IF double /\ ~single THEN [useSingleQuotes |-> FALSE]
     ELSE [useSingleQuotes |-> TRUE]

\* ------------------------------------------------------------------------
\* utils/generate-import-statement.ts
\* ------------------------------------------------------------------------
formatIdentifier(identifier, suppressTypePrefix) ==
  (IF ~suppressTypePrefix /\ identifier.isTypeOnly THEN <<TokType>> ELSE <<>>)
    \o <<Ident(identifier.imported)>>
    \o (IF identifier.local = NoLocal THEN <<>>
        ELSE <<Kw("as"), Ident(identifier.local)>>)

\* ids.map(formatIdentifier).join(', ')
RECURSIVE JoinIdentifiers(_, _)
JoinIdentifiers(ids, suppress) ==
  IF ids = <<>> THEN <<>>
  ELSE IF Len(ids) = 1 THEN formatIdentifier(ids[1], suppress)
  ELSE formatIdentifier(ids[1], suppress) \o <<Kw(",")>>
         \o JoinIdentifiers(Tail(ids), suppress)

ThrowTokens(message) == <<Kw(message)>>

\* A plausible slip: the identifier required of every kind that has bindings
ThrowsFor_named(type, identifiers) ==
  type \in {"namespace", "default", "named"} /\ identifiers = <<>>

\* if (typeof identifier === 'undefined') throw, in the cases 'namespace' and
\* 'default'
ThrowsFor(type, identifiers) ==
  type \in {"namespace", "default"} /\ identifiers = <<>>

ErrorFor(type) ==
  IF type = "namespace" THEN "Namespace identifier is required"
  ELSE "Default identifier is required"

\* The per-kind templates, for identifiers already in output order
RenderStatement(type, isTypeOnly, identifiers, source, quote, text) ==
  LET statementTypePrefix == IF isTypeOnly THEN <<TokType>> ELSE <<>>
      suppress == isTypeOnly
      from == <<Kw("from"), StringLiteral(quote, source), Kw(";")>>
  IN
  IF ThrowsFor(type, identifiers) THEN ThrowTokens(ErrorFor(type)) ELSE
  CASE type = "side-effect" ->
         <<Kw("import")>> \o statementTypePrefix
           \o <<StringLiteral(quote, source), Kw(";")>>
    [] type = "namespace" ->
         <<Kw("import")>> \o statementTypePrefix
           \o <<Kw("*"), Kw("as"), Ident(identifiers[1].imported)>>
           \o from
    [] type = "default" ->
         IF Len(identifiers) = 1
           THEN <<Kw("import")>> \o statementTypePrefix
                  \o formatIdentifier(identifiers[1], suppress) \o from
         ELSE <<Kw("import")>> \o statementTypePrefix
                \o formatIdentifier(identifiers[1], suppress)
                \o <<Kw(","), Kw("{")>>
                \o JoinIdentifiers(Tail(identifiers), suppress)
                \o <<Kw("}")>> \o from
    [] type = "named" ->
         <<Kw("import")>> \o statementTypePrefix \o <<Kw("{")>>
           \o JoinIdentifiers(identifiers, suppress)
           \o <<Kw("}")>> \o from
    [] OTHER -> text

\* A plausible slip: the default binding sorted with the named bindings
GeneratedOrder_defaultSorted(type, identifiers) ==
  IF type \in {"default", "named"}
    THEN StableSort(identifiers, ComparatorOfGenerate)
    ELSE identifiers

\* The identifiers in the order the generator emits them: a default binding
\* stays first, the named bindings are sorted.
GeneratedOrder(type, identifiers) ==
  IF type = "default" /\ Len(identifiers) > 1
    THEN <<identifiers[1]>>
           \o StableSort(Tail(identifiers), ComparatorOfGenerate)
  ELSE IF type = "named"
    THEN StableSort(identifiers, ComparatorOfGenerate)
  ELSE identifiers

generateImportStatement(importInfo, preferences) ==
  RenderStatement(importInfo.type, importInfo.isTypeOnly,
                  GeneratedOrder(importInfo.type, importInfo.identifiers),
                  importInfo.source,
                  IF preferences.useSingleQuotes THEN SingleQuote ELSE DoubleQuote,
                  importInfo.text)

\* ------------------------------------------------------------------------
\* The ImportDeclaration node the host parser hands to the rule for one
\* statement: importKind, specifiers in source order, and the source.
\* ------------------------------------------------------------------------
ImportSpecifierOf(seg) ==
  LET typed == Len(seg) \in {2, 4}
      core == IF typed THEN Tail(seg) ELSE seg
  IN [type |-> "ImportSpecifier",
      importedType |-> IF core[1].k = "ident" THEN "Identifier" ELSE "Literal",
      imported |-> core[1].v,
      local |-> IF Len(core) = 3 THEN core[3].v ELSE core[1].v]

NamedSpecifiers(clause) ==
  LET segs == SplitAtCommas(BraceContent(clause))
  IN [i \in DOMAIN segs |-> ImportSpecifierOf(segs[i])]

NamespaceSpecifier(clause) ==
  [type |-> "ImportNamespaceSpecifier", importedType |-> "Identifier",
   imported |-> clause[3].v, local |-> clause[3].v]

DefaultSpecifier(clause) ==
  [type |-> "ImportDefaultSpecifier", importedType |-> "Identifier",
   imported |-> clause[1].v, local |-> clause[1].v]

BindingSpecifiers(clause) ==
  IF clause = <<>> THEN <<>>
  ELSE IF clause[1].k = "*" THEN <<NamespaceSpecifier(clause)>>
  ELSE NamedSpecifiers(clause)

ClauseSpecifiers(clause) ==
  IF clause = <<>> \/ clause[1].k \in {"*", "{"} THEN BindingSpecifiers(clause)
  ELSE <<DefaultSpecifier(clause)>> \o
         (IF Len(clause) >= 3 /\ clause[2].k = ","
            THEN BindingSpecifiers(SubSeq(clause, 3, Len(clause)))
            ELSE <<>>)

ParseImportDeclaration(toks) ==
  LET fromIdx == FirstToken(toks, "from")
      \* "import type from 'x'" and "import type, { a } from 'x'" bind the
      \* name type; otherwise a leading type marks a type-only statement
      typeKind == /\ Len(toks) >= 3
                  /\ toks[2] = TokType
                  /\ toks[3].k \notin {"from", ","}
      start == IF typeKind THEN 3 ELSE 2
      clause == IF fromIdx = 0 THEN <<>> ELSE SubSeq(toks, start, fromIdx - 1)
      sourceTok == IF fromIdx = 0 THEN toks[start] ELSE toks[fromIdx + 1]
  IN [importKind |-> IF typeKind THEN "type" ELSE "value",
      specifiers |-> ClauseSpecifiers(clause),
      source |-> sourceTok.v,
      sourceIsString |-> TRUE, hasRange |-> TRUE, hasLoc |-> TRUE]

\* What a node handed to the rule may lack
NodeDefects == {"none", "source", "range", "loc"}

\* The node of a declaration, possibly lacking a part
NodeWith(node, defect) ==
  [node EXCEPT !.sourceIsString = (defect # "source"),
               !.hasRange = (defect # "range"),
               !.hasLoc = (defect # "loc")]

\* ------------------------------------------------------------------------
\* utils/extract-import-info.ts
\* ------------------------------------------------------------------------
createIdentifier(imported, local, isTypeOnly, individualTypeSpecifiers) ==
  ImportIdentifier(imported,
                   IF local # NoLocal /\ local # imported THEN local ELSE NoLocal,
                   isTypeOnly \/ imported \in individualTypeSpecifiers)

\* the names behind a "type" keyword inside the braces
parseIndividualTypeSpecifiers(text) ==
  LET segs == SplitAtCommas(BraceContent(text))
  IN {segs[i][2].v : i \in {j \in DOMAIN segs :
                              /\ Len(segs[j]) >= 2
                              /\ segs[j][1] = TokType
                              /\ segs[j][2].k = "ident"}}

\* /^\s*import\s+type\s+/
StartsWithImportType(text) ==
  /\ Len(text) >= 3
  /\ text[1].k = "import"
  /\ text[2] = TokType
  /\ text[3].k \notin {",", ";"}

SelectSpecifiers(specifiers, type) ==
  SelectSeq(specifiers, LAMBDA spec : spec.type = type)

\* A plausible slip: the test of the imported node left out
IsIdentifierSpecifier_any(spec) == spec.type = "ImportSpecifier"

\* spec.type === 'ImportSpecifier' && spec.imported.type === 'Identifier'
IsIdentifierSpecifier(spec) ==
  spec.type = "ImportSpecifier" /\ spec.importedType = "Identifier"

NoError == "none"

\* A plausible slip: only the range of the node tested
NodeError_rangeOnly(node) ==
  IF ~node.sourceIsString THEN "Import source must be a string"
  ELSE IF ~node.hasRange
    THEN "Node must have range and location information"
  ELSE NoError

\* The two throw statements at the head of extractImportInfo
NodeError(node) ==
  IF ~node.sourceIsString THEN "Import source must be a string"
  ELSE IF ~node.hasRange \/ ~node.hasLoc
    THEN "Node must have range and location information"
  ELSE NoError

Thrown(message) == [thrown |-> message]
IsThrown(result) == "thrown" \in DOMAIN result

extractImportInfo(node, text) ==
  LET isTypeOnly == node.importKind = "type" \/ StartsWithImportType(text)
      individual == parseIndividualTypeSpecifiers(text)
      namespaceSpecs == SelectSpecifiers(node.specifiers, "ImportNamespaceSpecifier")
      defaultSpecs == SelectSpecifiers(node.specifiers, "ImportDefaultSpecifier")
      namedSpecs == SelectSeq(node.specifiers, IsIdentifierSpecifier)
      named == [i \in DOMAIN namedSpecs |->
                  createIdentifier(namedSpecs[i].imported, namedSpecs[i].local,
                                   isTypeOnly, individual)]
      type == IF node.specifiers = <<>> THEN "side-effect"
              ELSE IF namespaceSpecs # <<>> THEN "namespace"
              ELSE IF defaultSpecs # <<>> THEN "default"
              ELSE "named"
      identifiers ==
        CASE type = "side-effect" -> <<>>
          [] type = "namespace" ->
               <<createIdentifier(namespaceSpecs[1].local, NoLocal,
                                  isTypeOnly, individual)>>
          [] type = "default" ->
               <<createIdentifier(defaultSpecs[1].local, NoLocal,
                                  isTypeOnly, individual)>> \o named
          [] type = "named" -> named
  IN IF NodeError(node) # NoError THEN Thrown(NodeError(node))
     ELSE [source |-> node.source, text |-> text, type |-> type,
           identifiers |-> identifiers, isTypeOnly |-> isTypeOnly]

\* ------------------------------------------------------------------------
\* rule.ts
\* ------------------------------------------------------------------------
areIdentifiersSorted(importInfo) ==
  CASE importInfo.type \in {"side-effect", "namespace"} -> TRUE
    [] importInfo.type = "default" ->
         IF Len(importInfo.identifiers) <= 1 THEN TRUE
         ELSE areIdentifiersSortedArray(Tail(importInfo.identifiers))
    [] importInfo.type = "named" ->
         areIdentifiersSortedArray(importInfo.identifiers)
    [] OTHER -> TRUE

\* A plausible slip: the type-only statements kept in groups of their own
getGroupKey_rule_typeApart(importInfo) ==
  getImportGroupPriority(importInfo.source)
    + (IF importInfo.isTypeOnly THEN 1000 ELSE 0)

\* const basePriority = getImportGroupPriority(importInfo.source)
getGroupKey_rule(importInfo) == getImportGroupPriority(importInfo.source)

\* A plausible slip: one newline taken for a blank line
hasBlankLineBetween_oneNewline(i, unit) == unit[i].gap >= 1

\* At least two newlines between the end of statement i - 1 and the start of
\* statement i of the unit
hasBlankLineBetween(i, unit) == unit[i].gap >= 2

RECURSIVE AscendingKeys(_)
AscendingKeys(keys) ==
  IF keys = {} THEN <<>>
  ELSE LET least == CHOOSE k \in keys : \A other \in keys : k <= other
       IN <<least>> \o AscendingKeys(keys \ {least})

\* The groups Map, its entries sorted by key, each group sorted
sortedGroups(imports) ==
  LET keys == AscendingKeys({getGroupKey_rule(imports[i]) : i \in DOMAIN imports})
  IN [g \in DOMAIN keys |->
        sortImportsInGroup(
          SelectSeq(imports, LAMBDA info : getGroupKey_rule(info) = keys[g]))]

RECURSIVE Flat(_)
Flat(seqs) == IF seqs = <<>> THEN <<>> ELSE seqs[1] \o Flat(Tail(seqs))

expectedImportsOf(imports) == Flat(sortedGroups(imports))

DiffersFromExpected(importInfo, expectedImport) ==
  \/ importInfo.source # expectedImport.source
  \/ importInfo.type # expectedImport.type
  \/ Len(importInfo.identifiers) # Len(expectedImport.identifiers)
  \/ \E j \in DOMAIN importInfo.identifiers :
       \/ importInfo.identifiers[j].imported # expectedImport.identifiers[j].imported
       \/ importInfo.identifiers[j].isTypeOnly # expectedImport.identifiers[j].isTypeOnly

\* A plausible slip: the test of each record's own bindings left out
needsReorderingOf_orderOnly(imports, unit) ==
  LET expected == expectedImportsOf(imports)
  IN IF Len(imports) # Len(expected) THEN TRUE
     ELSE \E i \in DOMAIN imports :
            \/ /\ i > 1
               /\ getGroupKey_rule(imports[i]) # getGroupKey_rule(imports[i - 1])
               /\ ~hasBlankLineBetween(i, unit)
            \/ DiffersFromExpected(imports[i], expected[i])

\* The loop of 'Program:exit' that sets needsReordering
needsReorderingOf(imports, unit) ==
  LET expected == expectedImportsOf(imports)
  IN IF Len(imports) # Len(expected) THEN TRUE
     ELSE \E i \in DOMAIN imports :
            \/ ~areIdentifiersSorted(imports[i])
            \/ /\ i > 1
               /\ getGroupKey_rule(imports[i]) # getGroupKey_rule(imports[i - 1])
               /\ ~hasBlankLineBetween(i, unit)
            \/ DiffersFromExpected(imports[i], expected[i])

\* The lines of the replacement: sortedStatements before join('\n').  An
\* empty line is the empty token sequence.
BlankLine == <<>>

GroupLines(groupImports, unit) ==
  [i \in DOMAIN groupImports |->
     generateImportStatement(
       groupImports[i],
       detectFormattingPreferences(unit, groupImports[i].text))]

\* A plausible slip: the groups joined without the empty line
GroupSeparator_none(groupIndex) == <<>>

\* if (groupIndex > 0) sortedStatements.push('')
GroupSeparator(groupIndex) == IF groupIndex > 1 THEN <<BlankLine>> ELSE <<>>

RECURSIVE StatementLines(_, _, _)
StatementLines(groups, groupIndex, unit) ==
  IF groupIndex > Len(groups) THEN <<>>
  ELSE GroupSeparator(groupIndex)
         \o GroupLines(groups[groupIndex], unit)
         \o StatementLines(groups, groupIndex + 1, unit)

fixReplacement(imports, unit) == StatementLines(sortedGroups(imports), 1, unit)

\* The unit after fixer.replaceTextRange: the statements of the replacement,
\* each with the number of newlines that separate it from its predecessor.
RECURSIVE UnitOfLines(_, _, _)
UnitOfLines(lines, blanks, first) ==
  IF lines = <<>> THEN <<>>
  ELSE IF lines[1] = BlankLine
    THEN UnitOfLines(Tail(lines), blanks + 1, first)
  ELSE <<[toks |-> lines[1], gap |-> IF first THEN 0 ELSE blanks + 1]>>
         \o UnitOfLines(Tail(lines), 0, FALSE)

\* ------------------------------------------------------------------------
\* Inputs
\* ------------------------------------------------------------------------
NameLowerA == <<"a">>
NameUpperA == <<"A">>
NameB == <<"b">>
NameC == <<"c">>

\* Two names that differ in an accent and, further on, in case
NameXaB == <<"x", "a", "B">>
NameXAcuteB == <<"x", AcuteLowerA, "b">>

Plain(name) == ImportIdentifier(name, NoLocal, FALSE)
Typed(name) == ImportIdentifier(name, NoLocal, TRUE)

\* A statement as written in a source file: the identifiers in the order
\* given, in canonical spacing.
Written(type, isTypeOnly, identifiers, source, quote) ==
  RenderStatement(type, isTypeOnly, identifiers, source, quote, <<>>)

SourceR == <<"r">>
SourceX == <<"x">>
SourceHere == <<".", "/", "h">>

\* import { 'x-y' as c, a } from 'r';  a binding whose imported name is a
\* string, not an identifier
LiteralName == <<"x", "-", "y">>

LiteralNamed ==
  <<Kw("import"), Kw("{"), StringLiteral(SingleQuote, LiteralName), Kw("as"),
    Ident(NameC), Kw(","), Ident(NameLowerA), Kw("}"), Kw("from"),
    StringLiteral(SingleQuote, SourceR), Kw(";")>>

\* import b, * as a from 'r';  a default binding together with a namespace
\* binding
DefaultWithNamespace ==
  <<Kw("import"), Ident(NameB), Kw(","), Kw("*"), Kw("as"), Ident(NameLowerA),
    Kw("from"), StringLiteral(SingleQuote, SourceR), Kw(";")>>

\* Statements of one package in every kind, with unsorted, mixed-case,
\* accented and type-marked bindings, a type-only statement and one name
\* imported both as a type and, under an alias, as a value; fewer of a second
\* package and of a relative module.
MainPool ==
  { Written("side-effect", FALSE, <<>>, SourceR, SingleQuote),
    Written("namespace", FALSE, <<Plain(NameLowerA)>>, SourceR, SingleQuote),
    Written("default", FALSE, <<Plain(NameLowerA)>>, SourceR, SingleQuote),
    Written("default", FALSE, <<Plain(NameB), Plain(NameC), Plain(NameLowerA)>>,
            SourceR, SingleQuote),
    Written("named", FALSE, <<Plain(NameC), Plain(NameLowerA)>>,
            SourceR, SingleQuote),
    Written("named", FALSE, <<Plain(NameB)>>, SourceR, SingleQuote),
    Written("named", FALSE, <<Plain(NameLowerA)>>, SourceR, SingleQuote),
    Written("named", FALSE, <<Typed(NameLowerA), Plain(NameUpperA)>>,
            SourceR, SingleQuote),
    Written("default", FALSE, <<Plain(NameLowerA)>>, SourceX, SingleQuote),
    Written("named", FALSE, <<Plain(NameUpperA)>>, SourceX, DoubleQuote),
    Written("side-effect", FALSE, <<>>, SourceHere, SingleQuote),
    Written("default", FALSE, <<Plain(NameLowerA)>>, SourceHere, SingleQuote),
    Written("named", FALSE, <<Plain(NameC), Plain(NameLowerA)>>,
            SourceHere, SingleQuote),
    Written("named", FALSE, <<Plain(NameB)>>, SourceHere, DoubleQuote),
    Written("named", TRUE, <<Plain(NameB), Plain(NameLowerA)>>,
            SourceR, SingleQuote),
    Written("named", FALSE,
            <<Typed(NameB), ImportIdentifier(NameB, NameC, FALSE),
              Plain(NameLowerA)>>,
            SourceR, SingleQuote),
    LiteralNamed,
    DefaultWithNamespace,
    Written("named", FALSE, <<Plain(NameXaB), Plain(NameXAcuteB)>>,
            SourceR, SingleQuote) }

\* One default import per group of the ordering, two where a tier is shared
\* or disputed.
ScopedPkg == <<"@", "s", "/", "p">>
DollarL == <<"$", "l", "/", "x">>
TildeS == <<"~", "s", "/", "x">>
AtU == <<"@", "/", "u">>
TildeRoot == <<"~", "/", "c">>
BareSlash == <<".", "/">>

OrderSources ==
  { <<"n","o","d","e",":","f","s">>, <<"n","p","m",":","x">>,
    <<"a","p","p",":","x">>, SourceR, ScopedPkg, DollarL, TildeS, AtU,
    TildeRoot, <<".",".","/",".",".","/","x">>, <<".",".","/","x">>,
    BareSlash, <<".","/","a">>, <<".","/","a","/","b">> }

OrderPool ==
  { Written("default", FALSE, <<Plain(NameLowerA)>>, source, SingleQuote)
      : source \in OrderSources }
  \cup
  { Written("default", FALSE, <<Plain(NameB)>>, source, SingleQuote)
      : source \in {DollarL, TildeS, AtU, TildeRoot} }

\* Units of 0..n statements of a pool; between two statements one newline or
\* a blank line.
Units(pool, n) ==
  UNION { { [i \in 1..k |->
               [toks |-> f[i], gap |-> IF i = 1 THEN 0 ELSE g[i]]]
            : f \in [1..k -> pool], g \in [2..k -> {1, 2}] }
          : k \in 0..n }

\* ------------------------------------------------------------------------
\* State
\* ------------------------------------------------------------------------
VARIABLES
  text,         \* the source unit: its import statements and their spacing
  importData,   \* the records collected by the ImportDeclaration handler
  pc,           \* "Collecting", "Reported" (report with a fix), "Clean",
                \* "Thrown" (an error ended the pass)
  expected,     \* expectedImports of the last evaluation
  replacement,  \* the lines of the fix of the last report
  passes,       \* fixes applied so far
  src,          \* a specifier handed to the classifier
  cls,          \* its classification
  input,        \* the argument of a function called on its own
  output        \* its result

vars == <<text, importData, pc, expected, replacement, passes, src, cls,
          input, output>>

Unclassified == Classification("unclassified")

InitUnit(units) ==
  /\ text \in units
  /\ importData = <<>>
  /\ pc = "Collecting"
  /\ expected = <<>>
  /\ replacement = <<>>
  /\ passes = 0
  /\ src = <<>>
  /\ cls = Unclassified
  /\ input = <<>>
  /\ output = <<>>

Init == InitUnit(Units(MainPool, MaxImports))

InitOrder == InitUnit(Units(OrderPool, MaxImports))

\* ImportDeclaration(node): the traversal reaches the next import statement
ImportDeclaration ==
  /\ pc = "Collecting"
  /\ Len(importData) < Len(text)
  /\ \E defect \in NodeDefects :
       LET n == Len(importData) + 1
           toks == text[n].toks
           node == NodeWith(ParseImportDeclaration(toks), defect)
           importInfo == extractImportInfo(node, toks)
       IN IF IsThrown(importInfo)
            \* the error leaves the handler and ends the traversal
            THEN /\ pc' = "Thrown"
                 /\ output' = importInfo.thrown
                 /\ UNCHANGED importData
            ELSE /\ importData' =
                      Append(importData, [node |-> node, info |-> importInfo])
                 /\ UNCHANGED <<pc, output>>
  /\ UNCHANGED <<text, expected, replacement, passes, src, cls, input>>

Imports == [i \in DOMAIN importData |-> importData[i].info]

\* A plausible slip: the evaluation run when the Program node is entered or
\* at any time of the traversal
TraversalDone_anyTime == TRUE

\* 'Program:exit': the traversal has left the last node of the unit
TraversalDone == Len(importData) = Len(text)

\* 'Program:exit': evaluate the collected imports, report with a fix or not
ProgramExit ==
  /\ pc = "Collecting"
  /\ TraversalDone
  /\ IF importData = <<>>
       THEN /\ pc' = "Clean"
            /\ UNCHANGED <<expected, replacement>>
       ELSE /\ expected' = expectedImportsOf(Imports)
            /\ IF needsReorderingOf(Imports, text)
                 THEN /\ pc' = "Reported"
                      /\ replacement' = fixReplacement(Imports, text)
                 ELSE /\ pc' = "Clean"
                      /\ UNCHANGED replacement
  /\ UNCHANGED <<text, importData, passes, src, cls, input, output>>

\* The host applies the fix and lints the result again
ApplyFix ==
  /\ pc = "Reported"
  /\ passes < MaxPasses
  /\ text' = UnitOfLines(replacement, 0, TRUE)
  /\ importData' = <<>>
  /\ pc' = "Collecting"
  /\ passes' = passes + 1
  /\ UNCHANGED <<expected, replacement, src, cls, input, output>>

Next == ImportDeclaration \/ ProgramExit \/ ApplyFix

Spec == Init /\ [][Next]_vars

\* The same rule on units that span every group of the ordering
SpecOrder == InitOrder /\ [][Next]_vars

\* ------------------------------------------------------------------------
\* The classifier on its own: one specifier is drawn and classified
\* ------------------------------------------------------------------------
SpecifierAlphabet == {"@", "/", "~", "$", ".", ":", "a"}

ShortSpecifiers ==
  UNION {[1..n -> SpecifierAlphabet] : n \in 0..MaxSrcLen}

AngularCore == <<"@","a","n","g","u","l","a","r","/","c","o","r","e">>
AtUtils == <<"@","/","u","t","i","l","s">>
TildeShared == <<"~","s","h","a","r","e","d","/","t","y","p","e","s">>
TildeConfig == <<"~","/","c","o","n","f","i","g">>
DollarLib == <<"$","l","i","b","/","s","t","o","r","e","s">>
DollarLibAlias == <<"$","l","i","b">>
ParentParentX == <<".",".","/",".",".","/","x">>
ParentX == <<".",".","/","x">>
HereAB == <<".","/","a","/","b">>
HereA == <<".","/","a">>
NodeFs == <<"n","o","d","e",":","f","s">>
NpmX == <<"n","p","m",":","x">>
AppX == <<"a","p","p",":","x">>

NodeUpperFs == <<"N","O","D","E",":","f","s">>
JsrUpperX == <<"J","s","r",":","x">>
V2Api == <<"v","2",":","a","p","i">>
TwoInvalid == <<"2","i","n","v","a","l","i","d",":","m","o","d","u","l","e">>
DashInvalid == <<"-","i","n","v","a","l","i","d",":","m","o","d","u","l","e">>

ExampleSpecifiers ==
  { AngularCore, AtUtils, TildeShared, TildeConfig, DollarLib, ParentParentX,
    ParentX, HereAB, HereA, NodeFs, NpmX, AppX, NodeUpperFs, JsrUpperX, V2Api,
    TwoInvalid, DashInvalid }

\* Paths that climb up to MaxDepth directories: "../x", "../../x", ...
MaxDepth == 55

RECURSIVE ParentPath(_)
ParentPath(depth) ==
  IF depth = 0 THEN <<"x">> ELSE <<".", ".", "/">> \o ParentPath(depth - 1)

DeepParents == {ParentPath(depth) : depth \in 1..MaxDepth}

InitClassify ==
  /\ src \in ShortSpecifiers \cup ExampleSpecifiers \cup DeepParents
  /\ cls = Unclassified
  /\ text = <<>>
  /\ importData = <<>>
  /\ pc = "Classifying"
  /\ expected = <<>>
  /\ replacement = <<>>
  /\ passes = 0
  /\ input = <<>>
  /\ output = <<>>

Classify ==
  /\ pc = "Classifying"
  /\ cls = Unclassified
  /\ cls' = classifyImportGroup(src)
  /\ UNCHANGED <<text, importData, pc, expected, replacement, passes, src,
                 input, output>>

NextClassify == Classify

SpecClassify == InitClassify /\ [][NextClassify]_vars

GroupKinds ==
  { "runtime-namespaced", "registry-namespaced", "generic-namespaced",
    "bare-import", "dollar-aliased", "tilde-aliased", "at-aliased",
    "parent-relative", "current-directory" }

\* s is head, then a run of alias characters of at least least characters,
\* then "/"; the run ends before position k
AliasThenSlash(s, head, least, k) ==
  /\ k \in (2 + least)..Len(s)
  /\ s[1] = head
  /\ s[k] = "/"
  /\ \A i \in 2..(k - 1) : IsAliasChar(s[i])

\* C4: every specifier gets exactly one of the nine variants, and the first
\* matching rule decides: "@/..." is the at alias while every other "@..." is
\* a scoped bare import; "~/..." is the root tilde alias and "~name/..." the
\* non-root one; "$name/..." is the dollar alias "$name"; "../../x" is
\* parent-relative of depth 2 and "./a/b" current-directory of depth 1.
C4_ClassifyPrecedence ==
  cls # Unclassified =>
    /\ cls.kind \in GroupKinds
    /\ StartsWith(src, <<"@", "/">>) => cls.kind = "at-aliased"
    /\ (StartsWith(src, <<"@">>) /\ ~StartsWith(src, <<"@", "/">>)) =>
         (cls.kind = "bare-import" /\ cls.isScoped)
    /\ StartsWith(src, <<"~", "/">>) => (cls.kind = "tilde-aliased" /\ cls.isRoot)
    /\ (\E k \in DOMAIN src : AliasThenSlash(src, "~", 1, k)) =>
         (cls.kind = "tilde-aliased" /\ ~cls.isRoot)
    /\ \A k \in DOMAIN src : AliasThenSlash(src, "$", 0, k) =>
         (cls.kind = "dollar-aliased" /\ cls.alias = SubSeq(src, 1, k - 1))
    /\ src = AngularCore => (cls.kind = "bare-import" /\ cls.isScoped)
    /\ src = AtUtils => cls.kind = "at-aliased"
    /\ src = TildeShared => (cls.kind = "tilde-aliased" /\ ~cls.isRoot)
    /\ src = TildeConfig => (cls.kind = "tilde-aliased" /\ cls.isRoot)
    /\ src = DollarLib => (cls.kind = "dollar-aliased" /\ cls.alias = DollarLibAlias)
    /\ src = ParentParentX => (cls.kind = "parent-relative" /\ cls.depth = 2)
    /\ src = HereAB => (cls.kind = "current-directory" /\ cls.depth = 1)

C4_Witness ==
  /\ src = AngularCore
  /\ cls.kind = "bare-import"
  /\ cls.isScoped

\* ------------------------------------------------------------------------
\* The reconciler: properties of the evaluation and of the fix
\* ------------------------------------------------------------------------
Evaluated == pc \in {"Clean", "Reported"}

KindOf(importInfo) == classifyImportGroup(importInfo.source).kind
DepthOf(importInfo) == classifyImportGroup(importInfo.source).depth
KeyOf(importInfo) == getImportGroupPriority(importInfo.source)

IsTildeNonRoot(importInfo) ==
  /\ KindOf(importInfo) = "tilde-aliased"
  /\ ~classifyImportGroup(importInfo.source).isRoot

IsBareSlash(importInfo) ==
  /\ KindOf(importInfo) = "current-directory"
  /\ classifyImportGroup(importInfo.source).isBareSlash

\* C1: linting the output of a fix reports nothing.
C1_FixIsIdempotent == passes >= 1 => pc # "Reported"

\* C2: repeated fixing ends in a text on which nothing is reported: no text
\* is still reported once two fixes have been applied, and no fix gives back
\* the text it was reported for.
C2_NoCircularFix ==
  /\ passes >= 2 => pc # "Reported"
  /\ pc = "Reported" => UnitOfLines(replacement, 0, TRUE) # text

\* The seven tiers as the ordering is stated: the dollar alias before the
\* non-root tilde alias
StatedTier(importInfo) ==
  LET kind == KindOf(importInfo)
  IN CASE kind = "runtime-namespaced" -> 0
       [] kind = "registry-namespaced" -> 1
       [] kind = "generic-namespaced" -> 2
       [] kind = "bare-import" -> 3
       [] kind = "dollar-aliased" -> 4
       [] kind = "tilde-aliased" -> IF IsTildeNonRoot(importInfo) THEN 5 ELSE 6
       [] kind = "at-aliased" -> 6
       [] OTHER -> 7

\* The tiers with the dollar alias and the non-root tilde alias in one tier
SharedTier(importInfo) ==
  IF IsTildeNonRoot(importInfo) THEN 4 ELSE StatedTier(importInfo)

IsRelative(importInfo) ==
  KindOf(importInfo) \in {"parent-relative", "current-directory"}

\* C3 (as stated): in the expected order every import of an earlier tier
\* precedes every import of a later tier, with Runtime < Registry < Generic <
\* Bare < Dollar alias < non-root Tilde alias < At alias and root Tilde alias.
C3_StatedTierOrder ==
  \A i, j \in DOMAIN expected :
    (i < j /\ ~IsRelative(expected[i]) /\ ~IsRelative(expected[j])) =>
      StatedTier(expected[i]) <= StatedTier(expected[j])

\* C3: in the expected order every import of an earlier tier precedes every
\* import of a later tier, with Runtime < Registry < Generic < Bare < Dollar
\* alias and non-root Tilde alias (one tier) < At alias and root Tilde alias
\* (one tier).
C3_TierOrder ==
  \A i, j \in DOMAIN expected :
    (i < j /\ ~IsRelative(expected[i]) /\ ~IsRelative(expected[j])) =>
      SharedTier(expected[i]) <= SharedTier(expected[j])

C3_Witness ==
  /\ pc = "Reported"
  /\ Len(expected) = 2
  /\ IsTildeNonRoot(expected[1])
  /\ KindOf(expected[2]) = "dollar-aliased"

MissingBlankLine ==
  \E i \in 2..Len(text) :
    /\ KeyOf(Imports[i]) # KeyOf(Imports[i - 1])
    /\ text[i].gap < 2

LineKey(line) == getImportGroupPriority(ParseImportDeclaration(line).source)

\* C6: the replacement lists the groups in ascending order of their keys:
\* lines that follow one another belong to one group, exactly one empty line
\* stands between two groups, and none stands first or last.
C6_ReplacementLayout ==
  pc = "Reported" =>
    LET n == Len(replacement)
    IN /\ n > 0
       /\ replacement[1] # BlankLine
       /\ replacement[n] # BlankLine
       /\ Len(SelectSeq(replacement, LAMBDA line : line # BlankLine))
            = Len(importData)
       /\ \A i \in 1..(n - 1) :
            IF replacement[i] = BlankLine
              THEN /\ replacement[i + 1] # BlankLine
                   /\ LineKey(replacement[i - 1]) < LineKey(replacement[i + 1])
              ELSE replacement[i + 1] # BlankLine =>
                     LineKey(replacement[i]) = LineKey(replacement[i + 1])

C6_Witness ==
  /\ pc = "Reported"
  /\ Len(replacement) = 3
  /\ replacement[2] = BlankLine
  /\ LineKey(replacement[1]) < LineKey(replacement[3])

\* C7 (as stated): in the expected order every parent-relative import
\* precedes every current-directory import, the bare "./" included, and the
\* bare "./" precedes the other current-directory imports.
C7_StatedRelativeOrder ==
  \A i, j \in DOMAIN expected :
    i < j =>
      /\ ~(KindOf(expected[i]) = "current-directory"
             /\ KindOf(expected[j]) = "parent-relative")
      /\ ~(KindOf(expected[i]) = "current-directory"
             /\ ~IsBareSlash(expected[i]) /\ IsBareSlash(expected[j]))

\* C7: in the expected order every parent-relative import precedes every
\* current-directory import other than the bare "./", and the bare "./"
\* precedes the other current-directory imports.
C7_RelativeOrder ==
  \A i, j \in DOMAIN expected :
    i < j =>
      /\ ~(KindOf(expected[i]) = "current-directory"
             /\ ~IsBareSlash(expected[i])
             /\ KindOf(expected[j]) = "parent-relative")
      /\ ~(KindOf(expected[i]) = "current-directory"
             /\ ~IsBareSlash(expected[i]) /\ IsBareSlash(expected[j]))

C7_Witness ==
  /\ pc = "Reported"
  /\ Len(expected) = 2
  /\ KindOf(expected[1]) = "parent-relative"
  /\ KindOf(expected[2]) = "current-directory"
  /\ ~IsBareSlash(expected[2])

\* C8: in the expected order a deeper parent-relative import precedes a
\* shallower one, and a shallower current-directory import precedes a deeper
\* one.
C8_DepthOrder ==
  \A i, j \in DOMAIN expected :
    i < j =>
      /\ (KindOf(expected[i]) = "parent-relative"
            /\ KindOf(expected[j]) = "parent-relative") =>
           DepthOf(expected[i]) >= DepthOf(expected[j])
      /\ (KindOf(expected[i]) = "current-directory"
            /\ KindOf(expected[j]) = "current-directory") =>
           DepthOf(expected[i]) <= DepthOf(expected[j])

C8_Witness ==
  /\ pc = "Reported"
  /\ Len(expected) = 2
  /\ KindOf(expected[1]) = "parent-relative"
  /\ KindOf(expected[2]) = "parent-relative"
  /\ DepthOf(expected[1]) = 2
  /\ DepthOf(expected[2]) = 1

KindRank(type) ==
  CASE type = "side-effect" -> 0
    [] type = "namespace" -> 1
    [] type = "default" -> 2
    [] type = "named" -> 3

\* C9: within one group the expected order has the side-effect imports
\* first, then the namespace, the default and the named imports.
C9_KindOrder ==
  \A i, j \in DOMAIN expected :
    (i < j /\ KeyOf(expected[i]) = KeyOf(expected[j])) =>
      KindRank(expected[i].type) <= KindRank(expected[j].type)

C9_Witness ==
  /\ pc = "Reported"
  /\ Len(expected) = 2
  /\ KeyOf(expected[1]) = KeyOf(expected[2])
  /\ expected[1].type = "namespace"
  /\ expected[2].type = "default"

FirstName(importInfo) ==
  IF importInfo.type = "side-effect" THEN importInfo.source
  ELSE importInfo.identifiers[1].imported

SameGroupAndKind(a, b) == KeyOf(a) = KeyOf(b) /\ a.type = b.type

\* C10 (as stated): within one group and kind the expected order follows the
\* first binding's imported name (the source for a side-effect import) under
\* the comparator of the identifier sorter, uppercase first; ties follow the
\* case-sensitive comparison of the sources.
C10_StatedFirstBindingOrder ==
  \A i, j \in DOMAIN expected :
    (i < j /\ SameGroupAndKind(expected[i], expected[j])) =>
      LET c == compareForSort(Plain(FirstName(expected[i])),
                              Plain(FirstName(expected[j])))
      IN \/ c < 0
         \/ c = 0 /\ compareStrings(expected[i].source, expected[j].source,
                                    "variant") <= 0

\* C10: within one group and kind the expected order follows the first
\* binding's imported name (the source for a side-effect import) compared
\* without regard to case and with digit runs by value; ties follow the
\* case-sensitive comparison of the sources.
C10_FirstBindingOrder ==
  \A i, j \in DOMAIN expected :
    (i < j /\ SameGroupAndKind(expected[i], expected[j])) =>
      LET c == compareStrings(FirstName(expected[i]), FirstName(expected[j]),
                              "base")
      IN \/ c < 0
         \/ c = 0 /\ compareStrings(expected[i].source, expected[j].source,
                                    "variant") <= 0

C10_Witness ==
  /\ pc = "Clean"
  /\ Len(expected) = 2
  /\ SameGroupAndKind(expected[1], expected[2])
  /\ expected[1].type = "named"
  /\ FirstName(expected[1]) = NameLowerA
  /\ FirstName(expected[2]) = NameUpperA

\* ------------------------------------------------------------------------
\* Type markers of the regenerated statements
\* ------------------------------------------------------------------------
\* The statements of the replacement, in order; the k-th regenerates
\* expected[k]
ReplacementStatements == SelectSeq(replacement, LAMBDA line : line # BlankLine)

HasStatementMarker(toks) == ParseImportDeclaration(toks).importKind = "type"

\* The bindings written between the braces of a statement: imported name,
\* alias (the imported name when there is none) and whether "type" precedes
WrittenBindings(toks) ==
  LET segs == SplitAtCommas(BraceContent(toks))
  IN { LET typed == Len(segs[i]) \in {2, 4} /\ segs[i][1] = TokType
           core == IF typed THEN Tail(segs[i]) ELSE segs[i]
       IN [imported |-> core[1].v,
           local |-> IF Len(core) = 3 THEN core[3].v ELSE core[1].v,
           typed |-> typed] : i \in DOMAIN segs }

\* C11: a regenerated statement has the statement-level type marker exactly
\* when its original has it, then none of its bindings is marked; otherwise a
\* binding is marked exactly when it was marked in the original, also after
\* the bindings have been sorted.
C11_TypeMarkersKept ==
  pc = "Reported" =>
    \A k \in DOMAIN expected :
      LET original == expected[k].text
          generated == ReplacementStatements[k]
      IN /\ HasStatementMarker(generated) = HasStatementMarker(original)
         /\ HasStatementMarker(generated) =>
              \A binding \in WrittenBindings(generated) : ~binding.typed
         /\ ~HasStatementMarker(original) =>
              WrittenBindings(generated) = WrittenBindings(original)

\* ------------------------------------------------------------------------
\* The identifier sorter on its own: one list of bindings is drawn and sorted
\* ------------------------------------------------------------------------
MaxNames == 3

NameAb == <<"A", "b">>
NameAa == <<"a", "a">>
NameA2 == <<"a", "2">>
NameA10 == <<"a", "1", "0">>
CustomType == <<"c","u","s","t","o","m","T","y","p","e">>
CustomTypeValues ==
  <<"C","u","s","t","o","m","T","y","p","e","V","a","l","u","e","s">>
Item1 == <<"i","t","e","m","1">>
Item2 == <<"i","t","e","m","2">>
Item10 == <<"i","t","e","m","1","0">>
Zeus == <<"Z","e","u","s">>
Alpha == <<"a","l","p","h","a">>
Beta == <<"B","e","t","a">>
Charlie == <<"c","h","a","r","l","i","e">>

\* xab and the accented name of the same letters compare equal in the sorter
NameXab == <<"x", "a", "b">>

SortNames ==
  { NameLowerA, NameUpperA, NameB, NameAb, NameAa, NameA2, NameA10, Beta,
    NameXab, NameXAcuteB }

ShortBindingLists ==
  UNION { [1..n -> {Plain(name) : name \in SortNames}] : n \in 0..MaxNames }

ExampleBindingLists ==
  { <<Plain(CustomType), Typed(CustomTypeValues)>>,
    <<Plain(Item10), Plain(Item2), Plain(Item1)>>,
    <<Plain(Zeus), Plain(Alpha), Plain(Beta), Plain(Charlie)>> }

InitSort ==
  /\ input \in ShortBindingLists \cup ExampleBindingLists
  /\ output = <<>>
  /\ pc = "Sorting"
  /\ text = <<>>
  /\ importData = <<>>
  /\ expected = <<>>
  /\ replacement = <<>>
  /\ passes = 0
  /\ src = <<>>
  /\ cls = Unclassified

\* sortIdentifiers(identifiers)
Sort ==
  /\ pc = "Sorting"
  /\ output' = sortIdentifiers(input)
  /\ pc' = "Sorted"
  /\ UNCHANGED <<text, importData, expected, replacement, passes, src, cls,
                 input>>

NextSort == Sort

SpecSort == InitSort /\ [][NextSort]_vars

SameLetterOtherCase(c, d) == CharToLower(c) = CharToLower(d) /\ c # d

RECURSIVE TrailingDigits(_)
TrailingDigits(name) ==
  IF name # <<>> /\ IsDigit(name[Len(name)])
    THEN 1 + TrailingDigits(SubSeq(name, 1, Len(name) - 1))
    ELSE 0

Stem(name) == SubSeq(name, 1, Len(name) - TrailingDigits(name))

RECURSIVE DecimalValue(_)
DecimalValue(digits) ==
  IF digits = <<>> THEN 0
  ELSE 10 * DecimalValue(SubSeq(digits, 1, Len(digits) - 1))
         + DigitValue(digits[Len(digits)])

TrailingNumber(name) ==
  DecimalValue(SubSeq(name, Len(name) - TrailingDigits(name) + 1, Len(name)))

\* C13: in a sorted list two names that differ only in their trailing number
\* stand in the order of the numbers' values, and two names whose first
\* letters differ stand in the alphabetical order of those letters, whatever
\* their case; item10, item2, item1 is sorted to item1, item2, item10 and
\* Zeus, alpha, Beta, charlie to alpha, Beta, charlie, Zeus.
C13_NaturalOrder ==
  pc = "Sorted" =>
    /\ \A i, j \in DOMAIN output :
         LET a == output[i].imported
             b == output[j].imported
         IN i < j =>
              /\ (Stem(a) = Stem(b) /\ TrailingDigits(a) > 0
                    /\ TrailingDigits(b) > 0) =>
                   TrailingNumber(a) <= TrailingNumber(b)
              /\ CharToLower(a[1]) # CharToLower(b[1]) =>
                   LetterIndex(a[1]) < LetterIndex(b[1])
    /\ ImportedNames(input) = <<Item10, Item2, Item1>> =>
         ImportedNames(output) = <<Item1, Item2, Item10>>
    /\ ImportedNames(input) = <<Zeus, Alpha, Beta, Charlie>> =>
         ImportedNames(output) = <<Alpha, Beta, Charlie, Zeus>>

C13_Witness ==
  /\ pc = "Sorted"
  /\ ImportedNames(input) = <<Item10, Item2, Item1>>
  /\ ImportedNames(output) = <<Item1, Item2, Item10>>

\* ------------------------------------------------------------------------
\* Quotes of the regenerated statements
\* ------------------------------------------------------------------------
QuoteOf(toks) == toks[CHOOSE i \in DOMAIN toks : IsStringToken(toks[i])].k

\* C14: every regenerated statement is quoted as its own original is,
\* whatever quotes the other statements of the block use.
C14_QuotesKept ==
  pc = "Reported" =>
    \A k \in DOMAIN expected :
      QuoteOf(ReplacementStatements[k]) = QuoteOf(expected[k].text)

C14_Witness ==
  /\ pc = "Reported"
  /\ Len(expected) = 2
  /\ QuoteOf(expected[1].text) = DoubleQuote
  /\ QuoteOf(expected[2].text) = SingleQuote
  /\ QuoteOf(ReplacementStatements[1]) = DoubleQuote
  /\ QuoteOf(ReplacementStatements[2]) = SingleQuote

\* ------------------------------------------------------------------------
\* Default imports with named bindings
\* ------------------------------------------------------------------------
IsHybrid(importInfo) ==
  importInfo.type = "default" /\ Len(importInfo.identifiers) > 1

NamedInSorterOrder(importInfo) ==
  ImportedNames(sortIdentifiers(Tail(importInfo.identifiers)))

FirstColon(s) ==
  IF \E i \in DOMAIN s : s[i] = ":"
    THEN CHOOSE i \in DOMAIN s : s[i] = ":" /\ \A j \in 1..(i - 1) : s[j] # ":"
    ELSE 0

NamespacePrefix(s) == SubSeq(s, 1, FirstColon(s) - 1)

\* [a-zA-Z][a-zA-Z0-9_-]*
IsPrefixPattern(prefix) ==
  /\ prefix # <<>>
  /\ IsLetter(prefix[1])
  /\ \A i \in 2..Len(prefix) :
       IsLetter(prefix[i]) \/ IsDigit(prefix[i]) \/ prefix[i] \in {"_", "-"}

NamespacedKinds ==
  {"runtime-namespaced", "registry-namespaced", "generic-namespaced"}

\* C16: a specifier with a colon behind a non-empty prefix is runtime-
\* namespaced when the prefix is, in any case, one of the runtime names,
\* registry-namespaced when it is one of the registry names, generic-
\* namespaced when it is another [a-zA-Z][a-zA-Z0-9_-]* name; with any other
\* prefix, or without one, it is none of the three: "2invalid:module",
\* "-invalid:module", "" and ":" are bare imports.
C16_NamespaceRules ==
  cls # Unclassified =>
    LET hasPrefix == FirstColon(src) > 1
        lower == ToLowerCase(NamespacePrefix(src))
    IN /\ (hasPrefix /\ lower \in RUNTIME_NAMESPACES) =>
            (cls.kind = "runtime-namespaced" /\ cls.namespace = lower)
       /\ (hasPrefix /\ lower \in REGISTRY_NAMESPACES) =>
            (cls.kind = "registry-namespaced" /\ cls.namespace = lower)
       /\ (hasPrefix /\ lower \notin RUNTIME_NAMESPACES \cup REGISTRY_NAMESPACES) =>
            (cls.kind = "generic-namespaced"
               <=> IsPrefixPattern(NamespacePrefix(src)))
       /\ cls.kind \in NamespacedKinds => hasPrefix
       /\ src \in {<<>>, <<":">>, TwoInvalid, DashInvalid} =>
            cls.kind = "bare-import"

C16_Witness ==
  /\ src = NodeUpperFs
  /\ cls.kind = "runtime-namespaced"
  /\ cls.namespace = <<"n", "o", "d", "e">>

\* C17: the specifier "." is classified current-directory, with depth 0 and
\* not as the bare "./".
C17_SingleDotIsCurrentDirectory ==
  (cls # Unclassified /\ src = <<".">>) =>
    /\ cls.kind = "current-directory"
    /\ cls.depth = 0
    /\ ~cls.isBareSlash

\* ------------------------------------------------------------------------
\* Malformed input
\* ------------------------------------------------------------------------
\* The binding written in one piece of the brace content, without a leading
\* "type"
BindingCore(seg) ==
  IF Len(seg) \in {2, 4} /\ seg[1] = TokType THEN Tail(seg) ELSE seg

HasLiteralName(toks) ==
  \E seg \in Range(SplitAtCommas(BraceContent(toks))) :
    IsStringToken(BindingCore(seg)[1])

\* The imported names of the bindings that are named by an identifier, in
\* the order written
IdentifierNames(toks) ==
  LET named == SelectSeq(SplitAtCommas(BraceContent(toks)),
                         LAMBDA seg : BindingCore(seg)[1].k = "ident")
  IN [i \in DOMAIN named |-> BindingCore(named[i])[1].v]

NodeErrors ==
  { "Import source must be a string",
    "Node must have range and location information" }

\* C18 (as stated): a declaration with a binding whose imported name is not
\* an identifier never yields a record; extraction throws.
C18_StatedLiteralNameThrows ==
  \A i \in DOMAIN importData : ~HasLiteralName(importData[i].info.text)

\* C18: a binding whose imported name is not an identifier is left out of
\* the record: extraction returns a record of the declaration's other
\* bindings, and throws only for a node that lacks a part.
C18_LiteralNameLeftOut ==
  /\ \A i \in DOMAIN importData :
       (HasLiteralName(importData[i].info.text)
          /\ importData[i].info.type = "named") =>
         ImportedNames(importData[i].info.identifiers)
           = IdentifierNames(importData[i].info.text)
  /\ pc = "Thrown" => output \in NodeErrors

C18_Witness ==
  /\ Len(importData) = 1
  /\ importData[1].info.text = LiteralNamed
  /\ ImportedNames(importData[1].info.identifiers) = <<NameLowerA>>

WellFormed(node) == node.sourceIsString /\ node.hasRange /\ node.hasLoc

\* C20: a declaration whose node lacks its range, its location or a string
\* source never becomes a record: the error ends the pass while the
\* declaration is collected, nothing follows it, and the step that throws
\* leaves the text, the expected order and the replacement as they were.
C20_ThrowEndsThePass ==
  [][ /\ pc # "Thrown"
      /\ \A i \in DOMAIN importData' : WellFormed(importData'[i].node)
      /\ pc' = "Thrown" =>
           UNCHANGED <<text, importData, expected, replacement, passes>> ]_vars

C20_Witness ==
  /\ pc = "Thrown"
  /\ passes = 0
  /\ Len(text) = 2
  /\ Len(importData) = 1
  /\ expected = <<>>
  /\ replacement = <<>>

\* ------------------------------------------------------------------------
\* The generator on its own: one record is drawn and a statement generated
\* ------------------------------------------------------------------------
MaxBindings == 2

ImportTypes == {"side-effect", "namespace", "default", "named"}

GeneratorBindings ==
  { Plain(NameLowerA), Plain(NameUpperA), Typed(NameB), Plain(NameXaB),
    Plain(NameXAcuteB) }

GeneratorRecords ==
  UNION { [source : {SourceR}, text : {<<>>}, type : ImportTypes,
           identifiers : [1..n -> GeneratorBindings], isTypeOnly : BOOLEAN]
            : n \in 0..MaxBindings }

InitGenerate ==
  /\ input \in [info : GeneratorRecords,
                preferences : [useSingleQuotes : BOOLEAN]]
  /\ output = <<>>
  /\ pc = "Generating"
  /\ text = <<>>
  /\ importData = <<>>
  /\ expected = <<>>
  /\ replacement = <<>>
  /\ passes = 0
  /\ src = <<>>
  /\ cls = Unclassified

\* generateImportStatement(importInfo, preferences)
Generate ==
  /\ pc = "Generating"
  /\ output' = generateImportStatement(input.info, input.preferences)
  /\ pc' = "Generated"
  /\ UNCHANGED <<text, importData, expected, replacement, passes, src, cls,
                 input>>

NextGenerate == Generate

SpecGenerate == InitGenerate /\ [][NextGenerate]_vars

GeneratorErrors ==
  { ThrowTokens("Namespace identifier is required"),
    ThrowTokens("Default identifier is required") }

IsStatement(toks) ==
  /\ Len(toks) >= 3
  /\ toks[1] = Kw("import")
  /\ toks[Len(toks)] = Kw(";")
  /\ IsStringToken(toks[Len(toks) - 1])

\* C19: the generator throws, with a message that names the missing
\* identifier, exactly for a namespace or default record without bindings;
\* for every other record, a side-effect record and a named record without
\* bindings included, it returns a statement.
C19_ThrowsWithoutIdentifier ==
  pc = "Generated" =>
    IF input.info.type \in {"namespace", "default"}
         /\ input.info.identifiers = <<>>
      THEN output \in GeneratorErrors
      ELSE IsStatement(output)

C19_Witness ==
  /\ pc = "Generated"
  /\ input.info.type = "named"
  /\ input.info.identifiers = <<>>
  /\ output = <<Kw("import"), Kw("{"), Kw("}"), Kw("from"),
                StringLiteral(SingleQuote, SourceR), Kw(";")>>

\* ------------------------------------------------------------------------
\* Type markers and the order
\* ------------------------------------------------------------------------
\* A binding as written, without a "type" that marks it
EraseBindingMarker(seg) ==
  IF Len(seg) \in {2, 4} /\ seg[1] = TokType THEN Tail(seg) ELSE seg

RECURSIVE JoinSegments(_)
JoinSegments(segs) ==
  IF segs = <<>> THEN <<>>
  ELSE IF Len(segs) = 1 THEN segs[1]
  ELSE segs[1] \o <<Kw(",")>> \o JoinSegments(Tail(segs))

\* The statement with every type marker taken out: the one behind "import"
\* and the ones in front of single bindings
EraseTypeMarkers(toks) ==
  LET stmt == IF HasStatementMarker(toks)
                THEN <<toks[1]>> \o SubSeq(toks, 3, Len(toks))
                ELSE toks
      lb == FirstToken(stmt, "{")
      rb == FirstToken(stmt, "}")
      segs == SplitAtCommas(BraceContent(stmt))
  IN IF lb = 0 THEN stmt
     ELSE SubSeq(stmt, 1, lb)
            \o JoinSegments([i \in DOMAIN segs |-> EraseBindingMarker(segs[i])])
            \o SubSeq(stmt, rb, Len(stmt))

IsMarked(toks) == EraseTypeMarkers(toks) # toks

\* The block that differs from the unit in its type markers only: none
UnmarkedUnit(unit) ==
  [i \in DOMAIN unit |->
     [toks |-> EraseTypeMarkers(unit[i].toks), gap |-> unit[i].gap]]

\* The records the handler collects from a well-formed unit
RecordsOf(unit) ==
  [i \in DOMAIN unit |->
     extractImportInfo(ParseImportDeclaration(unit[i].toks), unit[i].toks)]

\* What a record imports, its type markers and its text left aside
Unmarked(importInfo) ==
  [source |-> importInfo.source, type |-> importInfo.type,
   names |-> [j \in DOMAIN importInfo.identifiers |->
                <<importInfo.identifiers[j].imported,
                  importInfo.identifiers[j].local>>]]

UnmarkedAll(imports) == [i \in DOMAIN imports |-> Unmarked(imports[i])]

\* The bindings of a record in the order of its generated statement
EmittedNames(importInfo) ==
  LET ids == GeneratedOrder(importInfo.type, importInfo.identifiers)
  IN [j \in DOMAIN ids |-> <<ids[j].imported, ids[j].local>>]

\* C21: grouping and ordering do not depend on type markers: the unit and
\* the unit without its statement-level and per-binding type markers get the
\* same partition into groups, the same expected order of statements and the
\* same order of bindings inside each generated statement (so any two blocks
\* that differ in type markers only get the same).
C21_TypeMarkersDoNotOrder ==
  Evaluated =>
    LET plain == RecordsOf(UnmarkedUnit(text))
        groups == sortedGroups(Imports)
        plainGroups == sortedGroups(plain)
        plainExpected == expectedImportsOf(plain)
    IN /\ Len(groups) = Len(plainGroups)
       /\ \A g \in DOMAIN groups :
            UnmarkedAll(groups[g]) = UnmarkedAll(plainGroups[g])
       /\ UnmarkedAll(expected) = UnmarkedAll(plainExpected)
       /\ \A k \in DOMAIN expected :
            EmittedNames(expected[k]) = EmittedNames(plainExpected[k])

C21_Witness ==
  /\ pc = "Reported"
  /\ passes = 0
  /\ Len(text) = 2
  /\ HasStatementMarker(text[1].toks)
  /\ IsMarked(text[2].toks)
  /\ ~HasStatementMarker(text[2].toks)
  /\ UnmarkedAll(expected) # UnmarkedAll(Imports)
  /\ \E k \in DOMAIN expected :
       EmittedNames(expected[k]) # Unmarked(expected[k]).names

\* ------------------------------------------------------------------------
\* When the reconciler reports
\* ------------------------------------------------------------------------
\* The bindings of a record that are kept sorted: all of a named import, the
\* ones after the default binding of a default import
SortedPart(importInfo) ==
  CASE importInfo.type = "named" -> importInfo.identifiers
    [] importInfo.type = "default" /\ importInfo.identifiers # <<>> ->
         Tail(importInfo.identifiers)
    [] OTHER -> <<>>

OwnBindingsUnsorted(importInfo) ==
  ImportedNames(SortedPart(importInfo))
    # ImportedNames(sortIdentifiers(SortedPart(importInfo)))

\* (importedName, isTypeOnly) of each binding
NamePairs(importInfo) ==
  [j \in DOMAIN importInfo.identifiers |->
     <<importInfo.identifiers[j].imported, importInfo.identifiers[j].isTypeOnly>>]

OutOfPlace(i) ==
  \/ Imports[i].source # expected[i].source
  \/ Imports[i].type # expected[i].type
  \/ NamePairs(Imports[i]) # NamePairs(expected[i])

MaxLines == 3

Newline == [k |-> "\n", toks |-> <<>>]
Blank == [k |-> " ", toks |-> <<>>]
OtherCode == [k |-> "code", toks |-> <<>>]
BlockComment == [k |-> "comment", toks |-> <<>>]
ImportItem(toks) == [k |-> "import", toks |-> toks]

IsImportItem(item) == item.k = "import"

\* String.prototype.lastIndexOf(item, fromIndex) and indexOf(item, fromIndex)
\* on offsets; -1 when there is none
lastIndexOf(sourceText, item, fromIndex) ==
  LET found == {i \in 0..(Len(sourceText) - 1) :
                  i <= fromIndex /\ sourceText[i + 1] = item}
  IN IF found = {} THEN -1
     ELSE CHOOSE i \in found : \A j \in found : j <= i

indexOf(sourceText, item, fromIndex) ==
  LET found == {i \in 0..(Len(sourceText) - 1) :
                  i >= fromIndex /\ sourceText[i + 1] = item}
  IN IF found = {} THEN -1
     ELSE CHOOSE i \in found : \A j \in found : i <= j

\* String.prototype.slice(start, end)
slice(sourceText, start, end) == SubSeq(sourceText, start + 1, end)

\* node.range of the import declarations, in source order
RECURSIVE ImportRanges(_, _)
ImportRanges(sourceText, from) ==
  IF from > Len(sourceText) THEN <<>>
  ELSE (IF IsImportItem(sourceText[from]) THEN << <<from - 1, from>> >> ELSE <<>>)
         \o ImportRanges(sourceText, from + 1)

\* (textBetween.match(/\n/gu) || []).length
NewlineCount(textBetween) == Len(SelectSeq(textBetween, LAMBDA item : item = Newline))

\* The import statements of a text, each with the number of newlines between
\* the end of its predecessor and its start
UnitOfText(sourceText) ==
  LET ranges == ImportRanges(sourceText, 1)
  IN [i \in DOMAIN ranges |->
        [toks |-> sourceText[ranges[i][2]].toks,
         gap |-> IF i = 1 THEN 0
                 ELSE NewlineCount(slice(sourceText, ranges[i - 1][2],
                                         ranges[i][1]))]]

\* /^(\s*)/ on a line: its leading white space
RECURSIVE LeadingBlanks(_)
LeadingBlanks(fullLine) ==
  IF fullLine # <<>> /\ fullLine[1] = Blank
    THEN <<Blank>> \o LeadingBlanks(Tail(fullLine))
    ELSE <<>>

extractIndentation(sourceText, importRange) ==
  LET lineStart == lastIndexOf(sourceText, Newline, importRange[1]) + 1
      lineEnd == indexOf(sourceText, Newline, importRange[1])
      lineEndPos == IF lineEnd = -1 THEN Len(sourceText) ELSE lineEnd
  IN LeadingBlanks(slice(sourceText, lineStart, lineEndPos))

\* The key of indentationByKey: source, kind and bindings of a record
IndentationKey(info) ==
  [source |-> info.source, type |-> info.type, identifiers |-> info.identifiers]

\* indentationByKey.get(key) ?? '': the indentation of the last import that
\* has the key of the record
indentationByKey(importInfo, imports, sourceText) ==
  LET ranges == ImportRanges(sourceText, 1)
      same == {i \in DOMAIN imports :
                 IndentationKey(imports[i]) = IndentationKey(importInfo)}
  IN IF same = {} THEN <<>>
     ELSE extractIndentation(
            sourceText, ranges[CHOOSE i \in same : \A j \in same : j <= i])

\* sortedStatements.join('\n') as text: each statement behind its
\* indentation; line k of the statements regenerates the k-th expected record
RECURSIVE JoinStatements(_, _, _, _)
JoinStatements(lines, k, imports, sourceText) ==
  IF lines = <<>> THEN <<>>
  ELSE LET expectedImports == expectedImportsOf(imports)
           separator == IF Len(lines) > 1 THEN <<Newline>> ELSE <<>>
       IN IF lines[1] = BlankLine
            THEN separator \o JoinStatements(Tail(lines), k, imports, sourceText)
            ELSE indentationByKey(expectedImports[k], imports, sourceText)
                   \o <<ImportItem(lines[1])>> \o separator
                   \o JoinStatements(Tail(lines), k + 1, imports, sourceText)

\* A plausible slip: the span taken from the start of the first node
firstImportLineStart_nodeStart(sourceText) ==
  ImportRanges(sourceText, 1)[1][1]

\* text.lastIndexOf('\n', firstImport.range[0]) + 1
firstImportLineStart(sourceText) ==
  lastIndexOf(sourceText, Newline, ImportRanges(sourceText, 1)[1][1]) + 1

lastImportEnd(sourceText) ==
  LET ranges == ImportRanges(sourceText, 1)
      lastImportLineEnd == indexOf(sourceText, Newline, ranges[Len(ranges)][2])
  IN IF lastImportLineEnd = -1 THEN Len(sourceText) ELSE lastImportLineEnd

\* fixer.replaceTextRange(range, replacement), applied
replaceTextRange(sourceText, range, replacementText) ==
  slice(sourceText, 0, range[1]) \o replacementText
    \o slice(sourceText, range[2], Len(sourceText))

\* The text after the fix of a report
FixedText(sourceText, imports, lines) ==
  replaceTextRange(sourceText,
                   <<firstImportLineStart(sourceText), lastImportEnd(sourceText)>>,
                   JoinStatements(lines, 1, imports, sourceText))

\* A default import of a package, and a named import of a relative module
\* with its bindings out of order
TextPool ==
  { Written("default", FALSE, <<Plain(NameB)>>, SourceR, SingleQuote),
    Written("named", FALSE, <<Plain(NameC), Plain(NameLowerA)>>,
            SourceHere, SingleQuote) }

\* What one line of a text may hold
TextLines ==
  { <<>>, <<OtherCode>>, <<BlockComment>> }
  \cup { <<ImportItem(toks)>> : toks \in TextPool }
  \cup { <<Blank, ImportItem(toks)>> : toks \in TextPool }
  \cup { <<BlockComment, ImportItem(toks)>> : toks \in TextPool }
  \cup { <<ImportItem(toks), OtherCode>> : toks \in TextPool }

RECURSIVE JoinLines(_)
JoinLines(lines) ==
  IF lines = <<>> THEN <<>>
  ELSE IF Len(lines) = 1 THEN lines[1]
  ELSE lines[1] \o <<Newline>> \o JoinLines(Tail(lines))

Texts(n) ==
  UNION { { JoinLines(f) : f \in [1..k -> TextLines] } : k \in 0..n }

InitText ==
  /\ input \in Texts(MaxLines)
  /\ text = UnitOfText(input)
  /\ importData = <<>>
  /\ pc = "Collecting"
  /\ expected = <<>>
  /\ replacement = <<>>
  /\ passes = 0
  /\ src = <<>>
  /\ cls = Unclassified
  /\ output = <<>>

\* The host applies the fix to the source text and lints the result again
ApplyFixToText ==
  /\ pc = "Reported"
  /\ passes < MaxPasses
  /\ input' = FixedText(input, Imports, replacement)
  /\ text' = UnitOfText(input')
  /\ importData' = <<>>
  /\ pc' = "Collecting"
  /\ passes' = passes + 1
  /\ UNCHANGED <<expected, replacement, src, cls, output>>

NextText == ImportDeclaration \/ ProgramExit \/ ApplyFixToText

SpecText == InitText /\ [][NextText]_vars

IsOtherText(item) == item.k \in {"code", "comment"}

Count(items, k) == Len(SelectSeq(items, LAMBDA item : item.k = k))

\* What stands between the first and the last import declaration of a text
BetweenImports(sourceText) ==
  LET ranges == ImportRanges(sourceText, 1)
  IN slice(sourceText, ranges[1][2], ranges[Len(ranges)][1])

\* C23: the fix deletes no text that is not an import: every piece of code
\* and every comment between the first and the last import declaration is
\* still in the text after the replacement.
C23_OtherTextKept ==
  pc = "Reported" =>
    \A k \in {"code", "comment"} :
      Count(FixedText(input, Imports, replacement), k)
        >= Count(BetweenImports(input), k)

\* Offset of the start of the line that holds offset p
LineStart(sourceText, p) ==
  CHOOSE q \in 0..p :
    /\ q = 0 \/ sourceText[q] = Newline
    /\ \A i \in (q + 1)..p : sourceText[i] # Newline

\* Offset of the end of the line that holds offset p
LineEnd(sourceText, p) ==
  CHOOSE q \in p..Len(sourceText) :
    /\ q = Len(sourceText) \/ sourceText[q + 1] = Newline
    /\ \A i \in (p + 1)..q : sourceText[i] # Newline

\* C28: the fix replaces the span from the start of the line of the first
\* import declaration to the end of the line of the last one by the
\* regenerated statements, and leaves the text before and after that span
\* as it is.
C28_ReplacementSpan ==
  pc = "Reported" =>
    LET ranges == ImportRanges(input, 1)
        from == LineStart(input, ranges[1][1])
        to == LineEnd(input, ranges[Len(ranges)][2])
        fixed == FixedText(input, Imports, replacement)
        inserted == Len(fixed) - (Len(input) - (to - from))
    IN /\ slice(fixed, 0, from) = slice(input, 0, from)
       /\ slice(fixed, from + inserted, Len(fixed)) = slice(input, to, Len(input))
       /\ UnitOfLines(replacement, 0, TRUE)
            = UnitOfText(slice(fixed, from, from + inserted))
       /\ ~\E item \in Range(slice(fixed, from, from + inserted)) :
            IsOtherText(item)

C28_Witness ==
  /\ pc = "Reported"
  /\ passes = 0
  /\ Len(importData) = 1
  /\ LineStart(input, ImportRanges(input, 1)[1][1]) > 0
  /\ LineStart(input, ImportRanges(input, 1)[1][1]) < ImportRanges(input, 1)[1][1]
  /\ LineEnd(input, ImportRanges(input, 1)[1][2]) < Len(input)

\* ------------------------------------------------------------------------
\* What the fix keeps of the imports
\* ------------------------------------------------------------------------
\* The bindings a statement declares, as the parser gives them, each with
\* the "type" in front of it or not
DeclaredBindings(toks) ==
  LET specifiers == ParseImportDeclaration(toks).specifiers
  IN { [type |-> specifiers[i].type,
        imported |-> specifiers[i].imported,
        local |-> specifiers[i].local,
        typed |-> \E binding \in WrittenBindings(toks) :
                    /\ specifiers[i].type = "ImportSpecifier"
                    /\ binding.imported = specifiers[i].imported
                    /\ binding.local = specifiers[i].local
                    /\ binding.typed] : i \in DOMAIN specifiers }

\* How often a record occurs in a sequence
Occurrences(seq, x) == Cardinality({i \in DOMAIN seq : seq[i] = x})

IsPermutation(a, b) ==
  /\ Len(a) = Len(b)
  /\ \A i \in DOMAIN a : Occurrences(a, a[i]) = Occurrences(b, a[i])

\* C24: the fix keeps the imports of the block: the expected sequence is a
\* permutation of the collected records, the replacement has one statement
\* for each, and each statement has the source, the statement-level type
\* marker and the bindings (kind, imported name, local name, type marker) of
\* the declaration it regenerates.
C24_ImportsKept ==
  pc = "Reported" =>
    /\ IsPermutation(expected, Imports)
    /\ Len(ReplacementStatements) = Len(importData)
    /\ \A k \in DOMAIN expected :
         LET original == expected[k].text
             generated == ReplacementStatements[k]
         IN /\ ParseImportDeclaration(generated).source
                 = ParseImportDeclaration(original).source
            /\ HasStatementMarker(generated) = HasStatementMarker(original)
            /\ DeclaredBindings(generated) = DeclaredBindings(original)

\* ------------------------------------------------------------------------
\* The order of the generator and the order of the sorter
\* ------------------------------------------------------------------------
\* The imported names between the braces of a statement, in order
EmittedBindings(toks) ==
  LET named == SelectSpecifiers(ParseImportDeclaration(toks).specifiers,
                                "ImportSpecifier")
  IN [i \in DOMAIN named |-> Plain(named[i].imported)]

\* C25: the generator and the sorter order bindings alike: the bindings
\* between the braces of a generated statement are in the order sortBindings
\* returns for them, and so pass isSorted.
C25_OneOrdering ==
  (/\ pc = "Generated"
   /\ input.info.type \in {"named", "default"}
   /\ output \notin GeneratorErrors) =>
    /\ ImportedNames(EmittedBindings(output))
         = ImportedNames(sortIdentifiers(SortedPart(input.info)))
    /\ areIdentifiersSortedArray(EmittedBindings(output))

\* ------------------------------------------------------------------------
\* isSorted and sortBindings
\* ------------------------------------------------------------------------
\* C26: a list of bindings passes isSorted exactly when its imported names
\* are in the order sortBindings returns; the sorted list passes isSorted and
\* sorting it again changes nothing.
C26_SortedIffEqualsSorted ==
  pc = "Sorted" =>
    /\ areIdentifiersSortedArray(input)
         <=> ImportedNames(input) = ImportedNames(output)
    /\ areIdentifiersSortedArray(output)
    /\ sortIdentifiers(output) = output

C26_Witness ==
  /\ pc = "Sorted"
  /\ Len(input) = 3
  /\ output # input
  /\ ~areIdentifiersSortedArray(input)
  /\ \E i \in 1..2 :
       /\ output[i].imported # output[i + 1].imported
       /\ compareForSort(output[i], output[i + 1]) = 0

\* ------------------------------------------------------------------------
\* The keys of the parent-relative imports
\* ------------------------------------------------------------------------
\* The classifications of the specifiers the classifier is run on
KnownClassifications ==
  {classifyImportGroup(source) : source \in ShortSpecifiers \cup ExampleSpecifiers}

IsBeforeRelative(classification) ==
  classification.kind \in
    { "runtime-namespaced", "registry-namespaced", "generic-namespaced",
      "bare-import", "dollar-aliased", "tilde-aliased", "at-aliased" }

\* C27: the key of a parent-relative import of any depth is greater than the
\* key of every namespaced, bare and alias import, smaller than the key of
\* every current-directory import other than the bare "./", and the key of
\* no import of another kind.
C27_ParentKeyApart ==
  cls.kind = "parent-relative" =>
    \A other \in KnownClassifications :
      /\ IsBeforeRelative(other) => getGroupKey(other) < getGroupKey(cls)
      /\ (other.kind = "current-directory" /\ ~other.isBareSlash) =>
           getGroupKey(cls) < getGroupKey(other)
      /\ other.kind # "parent-relative" => getGroupKey(other) # getGroupKey(cls)

\* ------------------------------------------------------------------------
\* compareImportGroups on its own: two classifications are drawn and compared
\* ------------------------------------------------------------------------
CompareSources ==
  ExampleSpecifiers \cup OrderSources \cup {ParentPath(3), <<".", ".">>}

ComparedClassifications ==
  {classifyImportGroup(source) : source \in CompareSources}

InitCompare ==
  /\ input \in [a : ComparedClassifications, b : ComparedClassifications]
  /\ output = <<>>
  /\ pc = "Comparing"
  /\ text = <<>>
  /\ importData = <<>>
  /\ expected = <<>>
  /\ replacement = <<>>
  /\ passes = 0
  /\ src = <<>>
  /\ cls = Unclassified

\* compareImportGroups(a, b)
Compare ==
  /\ pc = "Comparing"
  /\ output' = compareImportGroups(input.a, input.b)
  /\ pc' = "Compared"
  /\ UNCHANGED <<text, importData, expected, replacement, passes, src, cls,
                 input>>

NextCompare == Compare

SpecCompare == InitCompare /\ [][NextCompare]_vars

Sign(n) == IF n < 0 THEN -1 ELSE IF n > 0 THEN 1 ELSE 0

\* C30: compareImportGroups and getGroupKey order the classifications alike:
\* the result of compareImportGroups(a, b) has the sign of
\* getGroupKey(a) - getGroupKey(b).
C30_SameOrder ==
  pc = "Compared" =>
    Sign(output) = Sign(getGroupKey(input.a) - getGroupKey(input.b))

\* ------------------------------------------------------------------------
\* The phases of one pass
\* ------------------------------------------------------------------------
\* C29: a pass collects, then evaluates once, then ends with no report or
\* with one report: the evaluation is taken only when every import statement
\* of the unit has been collected and changes neither the text nor the
\* records; it ends in no report (the replacement untouched) or in one report
\* whose single replacement holds a statement for every record; after it
\* nothing is evaluated or reported until a fix has been applied and the next
\* pass has begun.
C29_PhasesOfOnePass ==
  [][ /\ pc \notin {"Clean", "Thrown"}
      /\ pc' \in {"Clean", "Reported"} =>
           /\ pc = "Collecting"
           /\ Len(importData) = Len(text)
           /\ UNCHANGED <<text, importData, passes>>
      /\ pc' = "Clean" => UNCHANGED replacement
      /\ pc' = "Reported" =>
           /\ replacement' # <<>>
           /\ Len(SelectSeq(replacement', LAMBDA line : line # BlankLine))
                = Len(importData)
      /\ pc = "Reported" =>
           /\ pc' = "Collecting"
           /\ importData' = <<>>
           /\ passes' = passes + 1
           /\ UNCHANGED <<expected, replacement>>
      /\ (pc = "Collecting" /\ pc' = "Collecting") =>
           UNCHANGED <<expected, replacement>>
    ]_vars

C29_Witness ==
  /\ pc = "Reported"
  /\ passes = 1
  /\ Len(importData) = 2
  /\ Len(text) = 2
  /\ Len(ReplacementStatements) = 2

====
